---- MODULE Spec2Model ----
(***************************************************************************)
(* A model of silence_cutter.py: the command-line tool that detects the    *)
(* silences of a video with ffmpeg, plans the sections to keep and         *)
(* compiles them into ffmpeg select/aselect filter scripts.                *)
(*                                                                         *)
(* Time.  Every timestamp, the margin and the minimum silence duration are *)
(* integers counting half seconds (h stands for the float h/2).  Multiples *)
(* of 0.5 are exact in binary floating point, so the additions,            *)
(* subtractions and comparisons of the code are exact on this grid, and    *)
(* str() of such a float is its integer part, a point, and "0" or "5".     *)
(*                                                                         *)
(* Text.  Python strings are TLA+ strings; the filter expressions, the     *)
(* captured ffmpeg output and its words are built and taken apart          *)
(* character by character as the code does.                                *)
(***************************************************************************)
EXTENDS Integers, Sequences, FiniteSets, TLC

\* Largest timestamp (in half seconds) handed to the planning functions directly.
MaxTime == 4
\* Largest timestamp (in half seconds) ffmpeg and ffprobe write in a run of main.
MaxStamp == 2
\* Most lines of diagnostic text ffmpeg writes during detection.
MaxLines == 2
\* Most silence boundaries handed to the planning functions directly.
MaxSilences == 4
\* Largest margin and largest minimum silence duration on the command line.
MaxMargin == 1
MaxMinDuration == 2

Times == 0..MaxTime
Stamps == 0..MaxStamp
\* argparse's type=float takes a negative margin as well.
Margins == (0 - 1)..MaxMargin
MinDurations == 0..MaxMinDuration

----------------------------------------------------------------------------
(* Python built-ins used by the source. *)

max(a, b) == IF a >= b THEN a ELSE b

min(a, b) == IF a <= b THEN a ELSE b

Digits == <<"0", "1", "2", "3", "4", "5", "6", "7", "8", "9">>

IsDigit(c) == \E d \in 1..10 : Digits[d] = c

DigitVal(c) == (CHOOSE d \in 1..10 : Digits[d] = c) - 1

RECURSIVE IntStr(_)
IntStr(n) == IF n < 10 THEN Digits[n + 1] ELSE IntStr(n \div 10) \o Digits[(n % 10) + 1]

\* str(x) of a float x = h/2: "2.5", "10.0", "-0.5".
str(h) ==
    LET a == IF h < 0 THEN 0 - h ELSE h
    IN  (IF h < 0 THEN "-" ELSE "") \o IntStr(a \div 2) \o "."
            \o (IF a % 2 = 1 THEN "5" ELSE "0")

\* s[i] of a Python string, 1-based.
CharAt(s, i) == SubSeq(s, i, i)

\* The places where sub occurs in s.
Occurrences(s, sub) ==
    {i \in 1..(Len(s) - Len(sub) + 1) : SubSeq(s, i, i + Len(sub) - 1) = sub}

\* sub in s
Contains(s, sub) ==
    \E i \in 1..(Len(s) - Len(sub) + 1) : SubSeq(s, i, i + Len(sub) - 1) = sub

Least(S) == CHOOSE i \in S : \A j \in S : i <= j

RECURSIVE SplitFrom(_, _, _, _)
\* The pieces of s from place `from` on, cut at the occurrences `at` of sep,
\* leftmost first; an occurrence that overlaps the one just cut is passed over.
SplitFrom(s, sep, from, at) ==
    IF at = {} THEN <<SubSeq(s, from, Len(s))>>
    ELSE LET i == Least(at)
         IN  <<SubSeq(s, from, i - 1)>>
                 \o SplitFrom(s, sep, i + Len(sep), {j \in at : j >= i + Len(sep)})

\* s.split(sep): empty pieces are kept.
Split(s, sep) == SplitFrom(s, sep, 1, Occurrences(s, sep))

RECURSIVE Join(_, _)
\* sep.join(pieces)
Join(pieces, sep) ==
    IF Len(pieces) = 1 THEN pieces[1]
    ELSE pieces[1] \o sep \o Join(Tail(pieces), sep)

\* s.replace(old, new)
Replace(s, old, new) == Join(Split(s, old), new)

IsSpace(c) == c \in {" ", "\n", "\t", "\r"}

RECURSIVE Strip(_)
\* s.strip(), which float() applies to its argument.
Strip(s) ==
    IF s = "" THEN s
    ELSE IF IsSpace(CharAt(s, 1)) THEN Strip(SubSeq(s, 2, Len(s)))
    ELSE IF IsSpace(CharAt(s, Len(s))) THEN Strip(SubSeq(s, 1, Len(s) - 1))
    ELSE s

AllDigits(s) == \A i \in 1..Len(s) : IsDigit(CharAt(s, i))

AllZeros(s) == \A i \in 1..Len(s) : CharAt(s, i) = "0"

RECURSIVE IntVal(_)
IntVal(s) == IF s = "" THEN 0
             ELSE 10 * IntVal(SubSeq(s, 1, Len(s) - 1)) + DigitVal(CharAt(s, Len(s)))

\* The unsigned part of a float literal: digits, optionally a point and digits.
FloatBody(w) ==
    LET t == Strip(w)
    IN  IF t # "" /\ CharAt(t, 1) \in {"-", "+"} THEN SubSeq(t, 2, Len(t)) ELSE t

\* Whether float(w) returns (TRUE) or raises ValueError (FALSE).  The decimal
\* literals are modelled; exponents, inf and nan are not written by the tools.
float_ok(w) ==
    LET parts == Split(FloatBody(w), ".")
    IN  /\ Len(parts) \in {1, 2}
        /\ \A k \in 1..Len(parts) : AllDigits(parts[k])
        /\ \E k \in 1..Len(parts) : parts[k] # ""

\* float(w) for a literal on the half-second grid.
float(w) ==
    LET t     == Strip(w)
        parts == Split(FloatBody(w), ".")
        frac  == IF Len(parts) = 2 THEN parts[2] ELSE ""
        half  == CASE AllZeros(frac) -> 0
                   [] CharAt(frac, 1) = "5" /\ AllZeros(SubSeq(frac, 2, Len(frac))) -> 1
        a     == 2 * IntVal(parts[1]) + half
    IN  IF CharAt(t, 1) = "-" THEN 0 - a ELSE a

----------------------------------------------------------------------------
(* findSilences: the parse of the captured ffmpeg output. *)

\* str(subprocess.run(...)): the repr of the CompletedProcess, in which the
\* captured stderr bytes stand with their line ends escaped as backslash-n.
CompletedProcessRepr(min_duration, stderr) ==
    "CompletedProcess(args=['ffmpeg', '-i', 'in.mp4', '-af', 'silencedetect=n=0.03:d="
        \o str(min_duration)
        \o "', '-f', 'null', '-'], returncode=0, stdout=b'', stderr=b'"
        \o stderr \o "')"

\* lines = output.replace("\\r", "").split("\\n")
OutputLines(output) == Split(Replace(output, "\\r", ""), "\\n")

NoError == "none"

\* time_list.append(float(words[i + 1])), with its two ways to raise.
AppendFloat(acc, words, i) ==
    IF i + 1 > Len(words) THEN [acc EXCEPT !.raised = "IndexError"]
    ELSE IF ~float_ok(words[i + 1]) THEN [acc EXCEPT !.raised = "ValueError"]
    ELSE [acc EXCEPT !.time_list = Append(@, float(words[i + 1]))]

RECURSIVE ScanWords(_, _, _)
\* for i in range(len(words)): the two marker tests of one word.
ScanWords(words, i, acc) ==
    IF acc.raised # NoError \/ i > Len(words) THEN acc
    ELSE LET a1 == IF Contains(words[i], "silence_start")
                   THEN AppendFloat(acc, words, i) ELSE acc
             a2 == IF a1.raised = NoError /\ Contains(words[i], "silence_end")
                   THEN AppendFloat(a1, words, i) ELSE a1
         IN  ScanWords(words, i + 1, a2)

RECURSIVE ScanLines(_, _, _)
\* for line in lines: only the lines that mention silencedetect are split.
ScanLines(lines, k, acc) ==
    IF acc.raised # NoError \/ k > Len(lines) THEN acc
    ELSE ScanLines(lines, k + 1,
                   IF Contains(lines[k], "silencedetect")
                   THEN ScanWords(Split(lines[k], " "), 1, acc)
                   ELSE acc)

\* findSilences from the captured output on: [raised, time_list].
findSilences(output) ==
    ScanLines(OutputLines(output), 1, [raised |-> NoError, time_list |-> <<>>])

----------------------------------------------------------------------------
(* The planning functions. *)

\* Mutants of getSectionsOfNewVideo: the leading 0.0, or the duration, left out.
getSectionsOfNewVideo_NoStart(silences, duration) == silences \o <<duration>>

getSectionsOfNewVideo_NoEnd(silences, duration) == <<0>> \o silences

\* return [0.0] + silences + [duration]
getSectionsOfNewVideo(silences, duration) == <<0>> \o silences \o <<duration>>

\* Mutant of SegmentStart: the margin is applied without the clamp.
SegmentStart_NoClamp(videoSectionTimings, margin, i) ==
    videoSectionTimings[2 * i + 1] - margin

\* start = max(videoSectionTimings[2 * i] - margin, videoSectionTimings[0])
SegmentStart(videoSectionTimings, margin, i) ==
    max(videoSectionTimings[2 * i + 1] - margin, videoSectionTimings[1])

\* Mutant of SegmentEnd: the margin is applied without the clamp.
SegmentEnd_NoClamp(videoSectionTimings, margin, i) ==
    videoSectionTimings[2 * i + 2] + margin

\* end = min(videoSectionTimings[2 * i + 1] + margin, videoSectionTimings[-1])
SegmentEnd(videoSectionTimings, margin, i) ==
    min(videoSectionTimings[2 * i + 2] + margin,
        videoSectionTimings[Len(videoSectionTimings)])

RECURSIVE SegmentLoop(_, _, _, _)
\* for i in range(int(len(videoSectionTimings) / 2)): ret += "between(...)+"
SegmentLoop(videoSectionTimings, margin, i, ret) ==
    IF i >= Len(videoSectionTimings) \div 2 THEN ret
    ELSE SegmentLoop(videoSectionTimings, margin, i + 1,
             ret \o "between(t," \o str(SegmentStart(videoSectionTimings, margin, i))
                 \o "," \o str(SegmentEnd(videoSectionTimings, margin, i)) \o ")+")

\* Mutant of DropLast: the last "+" is not cut away.
DropLast_Kept(ret) == ret

\* ret[:-1]
DropLast(ret) == SubSeq(ret, 1, Len(ret) - 1)

ffmpeg_filter_getSegmentFilter(videoSectionTimings, margin) ==
    DropLast(SegmentLoop(videoSectionTimings, margin, 0, ""))

VideoPrefix == "select='"
VideoSuffix == "', setpts=N/FRAME_RATE/TB"
AudioPrefix == "aselect='"
AudioSuffix == "', asetpts=N/SR/TB"

getFileContent_videoFilter(videoSectionTimings, margin) ==
    VideoPrefix \o ffmpeg_filter_getSegmentFilter(videoSectionTimings, margin) \o VideoSuffix

getFileContent_audioFilter(videoSectionTimings, margin) ==
    AudioPrefix \o ffmpeg_filter_getSegmentFilter(videoSectionTimings, margin) \o AudioSuffix

\* Mutants of MarginTooLarge: a margin of exactly half the minimum duration is
\* rejected too; the minimum duration is not halved.
MarginTooLarge_Inclusive(margin, min_duration) == 2 * margin >= min_duration

MarginTooLarge_NoHalf(margin, min_duration) == margin > min_duration

\* args.margin > (float(args.min_duration) / 2), exact on the grid as 2m > d.
MarginTooLarge(margin, min_duration) == 2 * margin > min_duration

----------------------------------------------------------------------------
(* The environment: what ffmpeg and ffprobe may write. *)

Tag == "[silencedetect @ 0x1] "

DiagLines ==
    {Tag \o "silence_start: " \o str(t) : t \in Stamps}
    \cup {Tag \o "silence_end: " \o str(t) \o " | silence_duration: 0.5" : t \in Stamps}
    \cup {"size=N/A time=00:00:01.00 bitrate=N/A",
          "silence_start: 1.0",
          Tag \o "silence_start:",
          Tag \o "silence_end: N/A"}

RECURSIVE StreamsOfLen(_)
StreamsOfLen(n) ==
    IF n = 0 THEN {""}
    ELSE {l \o "\\n" \o s : l \in DiagLines, s \in StreamsOfLen(n - 1)}

\* Any text of up to MaxLines lines, each ended.
FreeStreams == UNION {StreamsOfLen(n) : n \in 0..MaxLines}

NonDecreasing(s) == \A i \in 1..Len(s) : \A j \in i..Len(s) : s[i] <= s[j]

\* The scenario of the documentation: a silence from 2.0 to 3.0 in a video of 10.0.
ScenarioSilences == <<4, 6>>
ScenarioDuration == 2 * 10

\* What a detector that works returns: boundaries in time order, a start and
\* an end in turn, the last silence possibly still open at the end of the file.
SilenceLists ==
    UNION {{s \in [1..n -> Times] : NonDecreasing(s)} : n \in 0..MaxSilences}
        \cup {ScenarioSilences}

\* The stderr text of a detection run.
Streams == FreeStreams

Durations == Times \cup {ScenarioDuration}

\* The stdout of ffprobe: the duration and a line end, or nothing usable.
ProbeOutputs == {str(d) \o "\n" : d \in Stamps \cup {ScenarioDuration}} \cup {"", "N/A\n"}

----------------------------------------------------------------------------
(* State. *)

VARIABLES
    pc,             \* where the program is
    input_exists,   \* os.path.isfile(args.input_file)
    margin,         \* args.margin
    min_duration,   \* float(args.min_duration)
    output,         \* findSilences: the captured ffmpeg output
    silences,       \* cut_silences: silences
    duration,       \* cut_silences: duration
    videoSegments,  \* cut_silences: videoSegments
    videoFilter,    \* cut_silences: videoFilter
    audioFilter,    \* cut_silences: audioFilter
    tempfiles,      \* the two filter files in the temp directory
    engine,         \* how the transcoding run ended: none, ok, nonzero, notfound
    spawned,        \* the subprocesses started so far, in order
    printed,        \* what was printed so far, in order
    raised,         \* the exception that ended the program, or none
    raised_in,      \* the function that raised it
    raised_at       \* the call in that function that raised it

vars == <<pc, input_exists, margin, min_duration, output, silences, duration,
          videoSegments, videoFilter, audioFilter, tempfiles, engine, spawned,
          printed, raised, raised_in, raised_at>>

Absent == [exists |-> FALSE, content |-> ""]

NoTempFiles == [videoFilter_file |-> Absent, audioFilter_file |-> Absent]

Init ==
    /\ pc = "main"
    /\ input_exists \in BOOLEAN
    /\ margin \in Margins
    /\ min_duration \in MinDurations
    /\ output = ""
    /\ silences = <<>>
    /\ duration = 0
    /\ videoSegments = <<>>
    /\ videoFilter = ""
    /\ audioFilter = ""
    /\ tempfiles = NoTempFiles
    /\ engine = "none"
    /\ spawned = <<>>
    /\ printed = <<>>
    /\ raised = NoError
    /\ raised_in = "none"
    /\ raised_at = "none"

\* An exception nobody catches: the program ends with a traceback.
Raise(exc, where, call) ==
    /\ pc' = "raised"
    /\ raised' = exc
    /\ raised_in' = where
    /\ raised_at' = call

NoRaise == UNCHANGED <<raised, raised_in, raised_at>>

\* main, up to its call of cut_silences.
Main ==
    /\ pc = "main"
    /\ IF ~input_exists
       THEN /\ printed' = Append(printed, "error: The input file could not be found")
            /\ pc' = "rejected"
       ELSE IF MarginTooLarge(margin, min_duration)
       THEN /\ printed' = Append(printed, "error: The margin is greater than half of the minimum duration")
            /\ pc' = "rejected"
       ELSE /\ UNCHANGED printed
            /\ pc' = "findSilences"
    /\ UNCHANGED <<input_exists, margin, min_duration, output, silences, duration,
                   videoSegments, videoFilter, audioFilter, tempfiles, engine,
                   spawned, raised, raised_in, raised_at>>

\* cut_silences, lines 101-102: the announcement, then
\* silences = findSilences(infile, noise_tolerance, silence_min_duration)
FindSilences ==
    /\ pc = "findSilences"
    /\ printed' = Append(printed, "Detecting silences")
    /\ \E found \in BOOLEAN :
        IF ~found
        THEN /\ Raise("FileNotFoundError", "findSilences", "subprocess.run")
             /\ UNCHANGED <<output, silences, spawned>>
        ELSE \E stderr \in Streams :
             LET out == CompletedProcessRepr(min_duration, stderr)
                 res == findSilences(out)
             IN  /\ spawned' = Append(spawned, "ffmpeg silencedetect")
                 /\ output' = out
                 /\ IF res.raised # NoError
                    THEN /\ Raise(res.raised, "findSilences", "time_list.append")
                         /\ UNCHANGED silences
                    ELSE /\ silences' = res.time_list
                         /\ pc' = "getVideoDuration"
                         /\ NoRaise
    /\ UNCHANGED <<input_exists, margin, min_duration, duration, videoSegments,
                   videoFilter, audioFilter, tempfiles, engine>>

\* duration = getVideoDuration(infile)
GetVideoDuration ==
    /\ pc = "getVideoDuration"
    /\ output' = ""
    /\ \E found \in BOOLEAN :
        IF ~found
        THEN /\ Raise("FileNotFoundError", "getVideoDuration", "subprocess.run")
             /\ UNCHANGED <<duration, spawned>>
        ELSE \E s \in ProbeOutputs :
             /\ spawned' = Append(spawned, "ffprobe")
             /\ IF ~float_ok(s)
                THEN /\ Raise("ValueError", "getVideoDuration", "float")
                     /\ UNCHANGED duration
                ELSE /\ duration' = float(s)
                     /\ pc' = "getSectionsOfNewVideo"
                     /\ NoRaise
    /\ UNCHANGED <<input_exists, margin, min_duration, silences, videoSegments,
                   videoFilter, audioFilter, tempfiles, engine, printed>>

\* videoSegments = getSectionsOfNewVideo(silences, duration)
GetSectionsOfNewVideo ==
    /\ pc = "getSectionsOfNewVideo"
    /\ videoSegments' = getSectionsOfNewVideo(silences, duration)
    /\ pc' = "getFileContent"
    /\ UNCHANGED <<input_exists, margin, min_duration, output, silences, duration,
                   videoFilter, audioFilter, tempfiles, engine, spawned, printed,
                   raised, raised_in, raised_at>>

\* videoFilter = getFileContent_videoFilter(...); audioFilter = ...
GetFileContent ==
    /\ pc = "getFileContent"
    /\ videoFilter' = getFileContent_videoFilter(videoSegments, margin)
    /\ audioFilter' = getFileContent_audioFilter(videoSegments, margin)
    /\ pc' = "ffmpeg_run"
    /\ UNCHANGED <<input_exists, margin, min_duration, output, silences, duration,
                   videoSegments, tempfiles, engine, spawned, printed, raised,
                   raised_in, raised_at>>

\* ffmpeg_run, lines 77-80: the two temp files are created (open mode "x").
\* n is the number of files created before open() raised, 2 when neither did.
FfmpegRunCreate ==
    /\ pc = "ffmpeg_run"
    /\ printed' = Append(printed, "Creating new video")
    /\ \E n \in 0..2 :
        /\ tempfiles' = [tempfiles EXCEPT
               !.videoFilter_file = IF n >= 1 THEN [exists |-> TRUE, content |-> ""] ELSE @,
               !.audioFilter_file = IF n >= 2 THEN [exists |-> TRUE, content |-> ""] ELSE @]
        /\ IF n < 2
           THEN Raise("OSError", "ffmpeg_run", "open")
           ELSE pc' = "writeFile" /\ NoRaise
    /\ UNCHANGED <<input_exists, margin, min_duration, output, silences, duration,
                   videoSegments, videoFilter, audioFilter, engine, spawned>>

\* ffmpeg_run, lines 83-84: the filters are written.  n is the number of
\* files written before writeFile raised, 2 when neither write did.
FfmpegRunWrite ==
    /\ pc = "writeFile"
    /\ \E n \in 0..2 :
        /\ tempfiles' = [tempfiles EXCEPT
               !.videoFilter_file.content = IF n >= 1 THEN videoFilter ELSE @,
               !.audioFilter_file.content = IF n >= 2 THEN audioFilter ELSE @]
        /\ IF n < 2
           THEN Raise("OSError", "ffmpeg_run", "writeFile")
           ELSE pc' = "subprocess_run" /\ NoRaise
    /\ UNCHANGED <<input_exists, margin, min_duration, output, silences, duration,
                   videoSegments, videoFilter, audioFilter, engine, spawned, printed>>

EngineResults == {"ok", "nonzero", "notfound"}

\* ffmpeg_run, lines 87-94: subprocess.run(command), without check=True.
FfmpegRunEngine ==
    /\ pc = "subprocess_run"
    /\ \E result \in EngineResults :
        /\ engine' = result
        /\ IF result = "notfound"
           THEN /\ Raise("FileNotFoundError", "ffmpeg_run", "subprocess.run")
                /\ UNCHANGED spawned
           ELSE /\ spawned' = Append(spawned, "ffmpeg encode")
                /\ pc' = "os_remove"
                /\ NoRaise
    /\ UNCHANGED <<input_exists, margin, min_duration, output, silences, duration,
                   videoSegments, videoFilter, audioFilter, tempfiles, printed>>

\* ffmpeg_run, lines 97-98: both temp files are removed, and main returns.
FfmpegRunRemove ==
    /\ pc = "os_remove"
    /\ tempfiles' = NoTempFiles
    /\ pc' = "done"
    /\ UNCHANGED <<input_exists, margin, min_duration, output, silences, duration,
                   videoSegments, videoFilter, audioFilter, engine, spawned, printed,
                   raised, raised_in, raised_at>>

Next ==
    \/ Main
    \/ FindSilences
    \/ GetVideoDuration
    \/ GetSectionsOfNewVideo
    \/ GetFileContent
    \/ FfmpegRunCreate
    \/ FfmpegRunWrite
    \/ FfmpegRunEngine
    \/ FfmpegRunRemove

\* The program, from its command line to its end.
Spec == Init /\ [][Next]_vars

----------------------------------------------------------------------------
(* The planning functions on their own: cut_silences entered after the two *)
(* measurements, with any margin (main's check is not on this path).       *)

InitPlan ==
    /\ pc = "getSectionsOfNewVideo"
    /\ input_exists = TRUE
    /\ margin \in Margins \cup {MaxMargin + 1}
    /\ min_duration \in MinDurations
    /\ output = ""
    /\ silences \in SilenceLists
    /\ duration \in Durations
    /\ videoSegments = <<>>
    /\ videoFilter = ""
    /\ audioFilter = ""
    /\ tempfiles = NoTempFiles
    /\ engine = "none"
    /\ spawned = <<"ffmpeg silencedetect", "ffprobe">>
    /\ printed = <<"Detecting silences">>
    /\ raised = NoError
    /\ raised_in = "none"
    /\ raised_at = "none"

NextPlan ==
    \/ GetSectionsOfNewVideo
    \/ GetFileContent

SpecPlan == InitPlan /\ [][NextPlan]_vars

----------------------------------------------------------------------------
(* Reading the compiled expressions back, as the transcoding engine does. *)

\* cut_silences holds both filters and is about to call ffmpeg_run.
FiltersBuilt == pc = "ffmpeg_run"

\* cut_silences holds videoSegments and is about to compile the filters.
SectionsBuilt == pc = "getFileContent"

\* The keep predicate inside the video and the audio filter script.
VideoPredicate ==
    SubSeq(videoFilter, Len(VideoPrefix) + 1, Len(videoFilter) - Len(VideoSuffix))

AudioPredicate ==
    SubSeq(audioFilter, Len(AudioPrefix) + 1, Len(audioFilter) - Len(AudioSuffix))

StartsWith(s, prefix) == SubSeq(s, 1, Len(prefix)) = prefix

EndsWith(s, suffix) == Len(s) >= Len(suffix) /\ SubSeq(s, Len(s) - Len(suffix) + 1, Len(s)) = suffix

\* The number of places where sub occurs in s.
Count(s, sub) ==
    Cardinality({i \in 1..(Len(s) - Len(sub) + 1) : SubSeq(s, i, i + Len(sub) - 1) = sub})

\* Whether term reads between(t,<float>,<float>).
IsBetween(term) ==
    LET f == Split(term, ",")
    IN  /\ Len(f) = 3
        /\ f[1] = "between(t"
        /\ float_ok(f[2])
        /\ EndsWith(f[3], ")")
        /\ float_ok(SubSeq(f[3], 1, Len(f[3]) - 1))

\* The interval <<start, end>> that a term between(t,start,end) tests.
TermInterval(term) ==
    LET f == Split(term, ",")
    IN  <<float(f[2]), float(SubSeq(f[3], 1, Len(f[3]) - 1))>>

\* The intervals of a predicate, in the order they are written.
Emitted(predicate) ==
    LET terms == Split(predicate, "+")
    IN  [k \in 1..Len(terms) |-> TermInterval(terms[k])]

WellFormed(predicate) ==
    LET terms == Split(predicate, "+")
    IN  \A k \in 1..Len(terms) : IsBetween(terms[k])

EvenNonEmpty(s) == Len(s) > 0 /\ Len(s) % 2 = 0

InRange(s, lo, hi) == \A k \in 1..Len(s) : lo <= s[k] /\ s[k] <= hi

\* Every detected silence (a start and its end) lasts at least d.
SilencesAtLeast(s, d) == \A k \in 1..(Len(s) \div 2) : s[2 * k] - s[2 * k - 1] >= d

\* start_i <= end_i, and consecutive intervals share at most one point.
Ordered(em) ==
    /\ \A i \in 1..Len(em) : em[i][1] <= em[i][2]
    /\ \A i \in 1..(Len(em) - 1) : em[i][2] <= em[i + 1][1]

\* No instant further than m inside a silence, from both its ends, is selected.
SilenceInteriorsCut(s, m, em) ==
    \A k \in 1..(Len(s) \div 2) : \A t \in 0..ScenarioDuration :
        (s[2 * k - 1] + m < t /\ t < s[2 * k] - m)
            => \A i \in 1..Len(em) : ~(em[i][1] <= t /\ t <= em[i][2])

Terminated == pc \in {"done", "raised", "rejected"}

----------------------------------------------------------------------------
(* C1 *)

\* C1: when ffmpeg_run has returned, or has raised at any step after the two
\* temp files were created, neither temp file exists any more.
C1_TempFilesDeleted ==
    (pc = "done" \/ (pc = "raised" /\ raised_in = "ffmpeg_run" /\ raised_at # "open"))
        => /\ ~tempfiles.videoFilter_file.exists
           /\ ~tempfiles.audioFilter_file.exists

(* C2 *)

\* C2: after the transcoding engine was not found or exited non-zero, the
\* program never ends normally: it ends with an error raised by ffmpeg_run.
C2_EngineFailureRaises ==
    (engine \in {"nonzero", "notfound"} /\ Terminated)
        => (pc = "raised" /\ raised_in = "ffmpeg_run")

(* C3 *)

\* C3: with a missing input file, or a margin above half the minimum duration,
\* main prints one error and returns: no subprocess is ever started and no temp
\* file ever exists; with an existing file and a margin of at most half the
\* minimum duration (exactly half included) main does not reject.
C3_ValidationShortCircuits ==
    /\ (~input_exists \/ 2 * margin > min_duration)
        => /\ pc \in {"main", "rejected"}
           /\ spawned = <<>>
           /\ tempfiles = NoTempFiles
           /\ pc = "rejected" => (Len(printed) = 1 /\ StartsWith(printed[1], "error:"))
    /\ (input_exists /\ 2 * margin <= min_duration) => pc # "rejected"

\* A margin above half the minimum duration was rejected.
C3_Witness ==
    /\ pc = "rejected"
    /\ input_exists
    /\ margin = 1
    /\ min_duration = 1
    /\ spawned = <<>>

(* C4 *)

\* The entry a marker stands for: the float that follows it, if one does.
MarkedFloat(words, i, marker) ==
    IF Contains(words[i], marker) /\ i + 1 <= Len(words) /\ float_ok(words[i + 1])
    THEN <<float(words[i + 1])>>
    ELSE <<>>

RECURSIVE MarkedFloats(_, _)
\* The entries of the markers of a line's words; a marker that no float
\* follows stands for none.
MarkedFloats(words, i) ==
    IF i > Len(words) THEN <<>>
    ELSE MarkedFloat(words, i, "silence_start") \o MarkedFloat(words, i, "silence_end")
            \o MarkedFloats(words, i + 1)

RECURSIVE MarkedFloatsOfLines(_, _)
MarkedFloatsOfLines(lines, k) ==
    IF k > Len(lines) THEN <<>>
    ELSE (IF Contains(lines[k], "silencedetect")
          THEN MarkedFloats(Split(lines[k], " "), 1) ELSE <<>>)
         \o MarkedFloatsOfLines(lines, k + 1)

\* C4: findSilences never raises on the text it parses, and what it returns is
\* the float after every marker that has one, in the order of the text.
C4_ParserNeverRaises ==
    /\ ~(pc = "raised" /\ raised_in = "findSilences"
            /\ raised \in {"IndexError", "ValueError"})
    /\ pc = "getVideoDuration"
        => silences = MarkedFloatsOfLines(OutputLines(output), 1)

(* C5 *)

\* C5: for a non-decreasing list of sections of even non-zero length and a
\* margin >= 0, every interval written starts at or after the first section
\* boundary and ends at or before the last one.
C5_MarginClamping ==
    (FiltersBuilt /\ EvenNonEmpty(videoSegments) /\ NonDecreasing(videoSegments)
        /\ margin >= 0)
        => \A p \in {VideoPredicate, AudioPredicate} :
            /\ WellFormed(p)
            /\ LET em == Emitted(p)
               IN  /\ Len(em) = Len(videoSegments) \div 2
                   /\ \A k \in 1..Len(em) :
                        /\ em[k][1] >= videoSegments[1]
                        /\ em[k][2] <= videoSegments[Len(videoSegments)]

\* Three sections, the second starting less than a margin after the first
\* boundary: its start is clamped.
C5_Witness ==
    /\ FiltersBuilt
    /\ Len(videoSegments) = 6
    /\ NonDecreasing(videoSegments)
    /\ margin > 0
    /\ videoSegments[3] - margin < videoSegments[1]
    /\ videoSegments[4] + margin > videoSegments[6]
    /\ Emitted(VideoPredicate)[2] = <<videoSegments[1], videoSegments[6]>>

(* C6 *)

\* C6: for a silence list of even length, the sections are 0.0, the silences
\* in order, and the duration: two more entries than the silences, an even
\* number; with no silence they are [0.0, duration].
C6_SectionsAreFramedSilences ==
    (SectionsBuilt /\ Len(silences) % 2 = 0)
        => /\ Len(videoSegments) = Len(silences) + 2
           /\ Len(videoSegments) % 2 = 0
           /\ videoSegments[1] = 0
           /\ \A k \in 1..Len(silences) : videoSegments[k + 1] = silences[k]
           /\ videoSegments[Len(silences) + 2] = duration
           /\ silences = <<>> => videoSegments = <<0, duration>>

\* A silence list of two entries, in any order, was framed.
C6_Witness ==
    /\ SectionsBuilt
    /\ Len(silences) = 2
    /\ silences[1] > silences[2]
    /\ silences[2] > 0
    /\ videoSegments = <<0, silences[1], silences[2], duration>>

(* C7 *)

\* C7: for sections of even non-zero length and a margin >= 0, the predicate
\* is len/2 terms between(t,start,end) joined by len/2 - 1 "+": it starts with
\* between(t, and does not end with "+"; the single pair [0.0, D] with margin 0
\* gives between(t,0.0,D) and no "+".
C7_PredicateShape ==
    (FiltersBuilt /\ EvenNonEmpty(videoSegments) /\ margin >= 0)
        => \A p \in {VideoPredicate, AudioPredicate} :
            /\ StartsWith(p, "between(t,")
            /\ ~EndsWith(p, "+")
            /\ Count(p, "+") = Len(videoSegments) \div 2 - 1
            /\ Count(p, "between(t,") = Len(videoSegments) \div 2
            /\ WellFormed(p)
            /\ (Len(videoSegments) = 2 /\ videoSegments[1] = 0 /\ margin = 0)
                => /\ p = "between(t,0.0," \o str(videoSegments[2]) \o ")"
                   /\ videoSegments[2] = ScenarioDuration => p = "between(t,0.0,10.0)"

\* Three terms joined by two "+".
C7_Witness ==
    /\ FiltersBuilt
    /\ Len(videoSegments) = 6
    /\ margin > 0
    /\ Count(VideoPredicate, "+") = 2
    /\ Count(AudioPredicate, "between(t,") = 3

(* C8 *)

\* The k-th (from 0) boundary of [0.0] + silences + [duration].
Boundary(k) ==
    IF k = 0 THEN 0 ELSE IF k = Len(silences) + 1 THEN duration ELSE silences[k]

\* C8: the i-th interval written is (max(seg[2i] - m, seg[0]),
\* min(seg[2i+1] + m, seg[last])) for seg = [0.0] + silences + [duration]; the
\* silence [2.0, 3.0] in a video of 10.0 gives
\* between(t,0.0,2.0)+between(t,3.0,10.0) with margin 0.0 and
\* between(t,0.0,2.5)+between(t,2.5,10.0) with margin 0.5.
C8_EndToEndIntervals ==
    FiltersBuilt
        => /\ \A p \in {VideoPredicate, AudioPredicate} :
                /\ WellFormed(p)
                /\ LET em == Emitted(p)
                   IN  /\ Len(em) = (Len(silences) + 2) \div 2
                       /\ \A i \in 0..(Len(em) - 1) :
                            em[i + 1] = <<max(Boundary(2 * i) - margin, 0),
                                          min(Boundary(2 * i + 1) + margin, duration)>>
           /\ (silences = ScenarioSilences /\ duration = ScenarioDuration /\ margin = 0)
                => VideoPredicate = "between(t,0.0,2.0)+between(t,3.0,10.0)"
           /\ (silences = ScenarioSilences /\ duration = ScenarioDuration /\ margin = 1)
                => VideoPredicate = "between(t,0.0,2.5)+between(t,2.5,10.0)"

\* The documented scenario with margin 0.5, written to the audio filter too.
C8_Witness ==
    /\ FiltersBuilt
    /\ silences = ScenarioSilences
    /\ duration = ScenarioDuration
    /\ margin = 1
    /\ audioFilter = "aselect='between(t,0.0,2.5)+between(t,2.5,10.0)', asetpts=N/SR/TB"

(* C9 *)

\* C9: for silences that are non-decreasing and lie in [0, duration], the
\* sections are non-decreasing, start with 0.0 and end with the duration.
C9_SectionsMonotone ==
    (SectionsBuilt /\ NonDecreasing(silences) /\ InRange(silences, 0, duration))
        => /\ NonDecreasing(videoSegments)
           /\ videoSegments[1] = 0
           /\ videoSegments[Len(videoSegments)] = duration

\* Two silences inside the video, the last ending before the video does.
C9_Witness ==
    /\ SectionsBuilt
    /\ Len(silences) = 4
    /\ InRange(silences, 1, duration - 1)
    /\ silences[1] < silences[4]
    /\ NonDecreasing(videoSegments)

(* C10 *)

\* C10 as stated: with a margin >= 0 that passes main's check and every
\* detected silence at least min_duration long, the intervals written are
\* ordered and no instant deep inside a silence is selected.
C10_OrderedAsStated ==
    (FiltersBuilt /\ margin >= 0 /\ ~MarginTooLarge(margin, min_duration)
        /\ SilencesAtLeast(silences, min_duration))
        => LET em == Emitted(VideoPredicate)
           IN  Ordered(em) /\ SilenceInteriorsCut(silences, margin, em)

\* C10, amended: the same, for silence boundaries that are non-decreasing and
\* lie in [0, duration].
C10_OrderedForValidSilences ==
    (FiltersBuilt /\ margin >= 0 /\ ~MarginTooLarge(margin, min_duration)
        /\ SilencesAtLeast(silences, min_duration)
        /\ NonDecreasing(silences) /\ InRange(silences, 0, duration))
        => \A p \in {VideoPredicate, AudioPredicate} :
            /\ WellFormed(p)
            /\ LET em == Emitted(p)
               IN  Ordered(em) /\ SilenceInteriorsCut(silences, margin, em)

\* Two silences of exactly twice the margin: the widened sections touch.
C10_Witness ==
    /\ FiltersBuilt
    /\ margin = 1
    /\ min_duration = 2
    /\ Len(silences) = 4
    /\ SilencesAtLeast(silences, min_duration)
    /\ NonDecreasing(silences)
    /\ InRange(silences, 0, duration)
    /\ Emitted(VideoPredicate)[1][2] = Emitted(VideoPredicate)[2][1]
    /\ Emitted(VideoPredicate)[2][2] = Emitted(VideoPredicate)[3][1]

====
